---- MODULE Spec2Model ----
(***************************************************************************)
(* Model of tradingview_screener_flask_app.py: the scan cycle              *)
(* scrape_tradingview_and_notify, run by a startup thread and by the       *)
(* APScheduler interval job, the per-day notification ledger last_sent,    *)
(* the snapshot (last_run_results, last_run_time) and the Flask views.     *)
(*                                                                         *)
(* Spec      the cycles of the two threads over the UTC days               *)
(* SpecFault Spec with exceptions raised inside the notify loop            *)
(* SpecView  the cycles of one day with the Flask views served meanwhile   *)
(* SpecMore  the cycles of one day with one more firing of the job         *)
(* SpecParse one pass of parse_rows_from_soup over the marker occurrences   *)
(***************************************************************************)
EXTENDS Integers, Sequences, FiniteSets, TLC

\* ---------------------------------------------------------------- bounds
MaxRows == 2        \* marker occurrences on one fetched page
MaxDay == 2         \* UTC days the run spans
MaxCycles == 1      \* firings of the interval job
MaxDepth == 3       \* elements between a marker occurrence and <body>

\* ------------------------------------------------------------- universes
Symbols == {"BTCUSDT", "ETHUSDT"}
Contexts == {"Strong Buy", "Neutral"}
Days == 1..MaxDay
Threads == {"startup", "periodic"}
Routes == {"index", "results"}

\* A row as parse_rows_from_soup appends it: symbol and flattened context.
Rows == [symbol : Symbols, context : Contexts]
Keys == Symbols \X Days

SeqsUpTo(S, n) == UNION {[1..k -> S] : k \in 0..n}
Pages == SeqsUpTo(Rows, MaxRows)
Range(s) == {s[i] : i \in 1..Len(s)}

\* for _ in range(5)
WalkBudget == 5
\* parent.name in ('tr', 'div', 'li', 'section')
ContainerTags == {"tr", "div", "li", "section"}
\* BeautifulSoup(html, 'lxml') puts every node under body, html and the
\* document object, whose parent is None
DocumentTop == <<"body", "html", "[document]">>
InnerTags == {"td", "div"}
\* the names of a marker occurrence's ancestors, nearest first
Chains == {inner \o DocumentTop : inner \in SeqsUpTo(InnerTags, MaxDepth)}

\* ------------------------------------------------------- pure functions
\* re.search(r'Strong\s*Buy', context, re.I)
HasMarker(context) == context = "Strong Buy"

\* k = r.get('symbol', '') or r.get('context', '')[:30]
DedupKey(r) == IF r.symbol # "" THEN r.symbol ELSE r.context

\* (DedupKeepLast: of the rows with one key the last is kept)
RECURSIVE DedupKeepLast(_, _, _)
DedupKeepLast(rows, seen, i) ==
    IF i > Len(rows) THEN <<>>
    ELSE IF \E j \in (i + 1)..Len(rows) : DedupKey(rows[j]) = DedupKey(rows[i])
         THEN DedupKeepLast(rows, seen, i + 1)
    ELSE <<rows[i]>> \o DedupKeepLast(rows, seen, i + 1)

RECURSIVE DedupFrom(_, _, _)
DedupFrom(rows, seen, i) ==
    IF i > Len(rows) THEN <<>>
    ELSE IF DedupKey(rows[i]) \in seen THEN DedupFrom(rows, seen, i + 1)
    ELSE <<rows[i]>> \o DedupFrom(rows, seen \cup {DedupKey(rows[i])}, i + 1)

\* deduplicate by symbol, keep first occurrence
\* (AllRows: every appended record is returned)
AllRows(rows) == rows
parse_rows_from_soup(rows) == DedupFrom(rows, {}, 1)

\* items after the inner try/except around lightweight_scrape
\* (ScrapeAll: the failure of the fetch is ignored)
ScrapeAll(fetched, page) == parse_rows_from_soup(page)
ScrapeOrEmpty(fetched, page) ==
    IF fetched THEN parse_rows_from_soup(page) ELSE <<>>

\* filtered = [it for it in items if re.search(...)]
\* (FilterNone: no record is dropped)
FilterNone(its) == its
Filter(its) == SelectSeq(its, LAMBDA it : HasMarker(it.context))

\* key = f"{symbol}|{now_date}"
\* (KeyWithoutDay: the key does not tell the days apart)
KeyWithoutDay(symbol, day) == <<symbol, 1>>
NotificationKey(symbol, day) == <<symbol, day>>

\* if key in last_sent: continue
\* (NeverSent: the membership test always answers no)
NeverSent(key, ledger) == FALSE
KeyInLastSent(key, ledger) == key \in ledger

\* if ok: last_sent.add(key)
\* (MarkAlways: the key is added whatever send returned)
MarkAlways(ledger, key, sent) == ledger \cup {key}
\* (MarkLatestOnly: a successful send replaces the ledger by its key)
MarkLatestOnly(ledger, key, sent) == IF sent THEN {key} ELSE ledger
MarkIfOk(ledger, key, sent) == IF sent THEN ledger \cup {key} ELSE ledger

\* last_run_results = filtered
\* (KeepPreviousIfEmpty: an empty scan keeps the previous results)
KeepPreviousIfEmpty(flt, prev) == IF flt = <<>> THEN prev ELSE flt
SnapshotResults(flt, prev) == flt

\* ------------------------------------------------------------------ state
VARIABLES
    last_sent,          \* set of keys (symbol|date)
    last_run_results,   \* sequence of rows
    last_run_time,      \* 0 = no run yet
    today,              \* datetime.utcnow().date()
    clock,              \* time.time()
    pc,                 \* per thread: position in scrape_tradingview_and_notify
    items, filtered, now_date, idx,   \* its locals, per thread
    started,            \* per thread: number of cycles started
    fetch_failed,       \* per thread: the inner except ran in this cycle
    atStart,            \* per thread: what was sent / had failed for the
                        \* cycle's symbols when the cycle began
    attempts,           \* per thread: positions in filtered for which the
                        \* cycle has called send_telegram_message
    okCount,            \* per key: sends that returned True
    lastOutcome,        \* per symbol: outcome of the latest send for today's key
    time_results,       \* the filtered list of the cycle that wrote last_run_time
    rd,                 \* the request being served
    xpc,                \* position in parse_rows_from_soup
    found,              \* candidates taken from find_all so far
    node,               \* ancestor names of the current candidate
    parent,             \* level of parent above node (0 = node itself)
    climbs,             \* iterations of the walk done for node
    results,            \* records appended so far
    returned            \* list(seen.values())

vars == <<last_sent, last_run_results, last_run_time, today, clock, pc, items,
          filtered, now_date, idx, started, fetch_failed, atStart, attempts,
          okCount, lastOutcome, time_results, rd, xpc, found, node, parent, climbs,
          results, returned>>

globals == <<last_sent, last_run_results, last_run_time>>
locals == <<items, filtered, now_date, idx>>
history == <<okCount, lastOutcome, time_results>>
cycleGhost == <<fetch_failed, atStart, attempts>>
env == <<today, clock>>
reader == <<rd>>
parser == <<xpc, found, node, parent, climbs, results, returned>>

IdleRd == [pc |-> "idle", route |-> "none", cond |-> FALSE, time |-> 0,
           results |-> <<>>, expected |-> <<>>]
NoStart == [sent |-> {}, failed |-> {}]

Init ==
    /\ last_sent = {}
    /\ last_run_results = <<>>
    /\ last_run_time = 0
    /\ today = 1
    /\ clock = 0
    /\ pc = [t \in Threads |-> "idle"]
    /\ items = [t \in Threads |-> <<>>]
    /\ filtered = [t \in Threads |-> <<>>]
    /\ now_date = [t \in Threads |-> 1]
    /\ idx = [t \in Threads |-> 1]
    /\ started = [t \in Threads |-> 0]
    /\ fetch_failed = [t \in Threads |-> FALSE]
    /\ atStart = [t \in Threads |-> NoStart]
    /\ attempts = [t \in Threads |-> <<>>]
    /\ okCount = [k \in Keys |-> 0]
    /\ lastOutcome = [s \in Symbols |-> "none"]
    /\ time_results = <<>>
    /\ rd = IdleRd
    /\ xpc = "for"
    /\ found = 0
    /\ node = <<>>
    /\ parent = 0
    /\ climbs = 0
    /\ results = <<>>
    /\ returned = <<>>

\* The Thread at line 159 runs the cycle once; the interval job fires
\* repeatedly and APScheduler (max_instances = 1) never overlaps the job
\* with itself.
MayStart(t, firings) ==
    /\ pc[t] = "idle"
    /\ started[t] < (IF t = "startup" THEN 1 ELSE firings)

CurKey(t) == NotificationKey(filtered[t][idx[t]].symbol, now_date[t])

SymbolsOf(s) == {s[i].symbol : i \in 1..Len(s)}

\* for it in filtered: the next record, or the statement after the loop
\* (StopAfterFirst: the loop is left after its first record)
StopAfterFirst(flt, i) ==
    IF i > Len(flt) \/ i > 1 THEN "write_results" ELSE "check"
LoopPc(flt, i) == IF i > Len(flt) THEN "write_results" ELSE "check"

\* lines 119-126: fetch and extract; a failed fetch leaves items empty
BeginWithin(t, firings) ==
    /\ MayStart(t, firings)
    /\ \E fetched \in BOOLEAN, page \in Pages :
          /\ items' = [items EXCEPT ![t] = ScrapeOrEmpty(fetched, page)]
          /\ fetch_failed' = [fetch_failed EXCEPT ![t] = ~fetched]
    /\ started' = [started EXCEPT ![t] = @ + 1]
    /\ pc' = [pc EXCEPT ![t] = "filter"]
    /\ UNCHANGED <<parser, globals, env, history, reader, filtered, now_date, idx,
                   atStart, attempts>>

Begin(t) == BeginWithin(t, MaxCycles)

\* lines 128-133: filter, read the UTC date, enter the loop; items is not
\* used again
FilterStep(t) ==
    /\ pc[t] = "filter"
    /\ filtered' = [filtered EXCEPT ![t] = Filter(items[t])]
    /\ items' = [items EXCEPT ![t] = <<>>]
    /\ now_date' = [now_date EXCEPT ![t] = today]
    /\ idx' = [idx EXCEPT ![t] = 1]
    /\ atStart' = [atStart EXCEPT ![t] =
          [sent   |-> {s \in SymbolsOf(filtered'[t]) :
                          NotificationKey(s, today) \in last_sent},
           failed |-> {s \in SymbolsOf(filtered'[t]) :
                          lastOutcome[s] = "fail"}]]
    /\ pc' = [pc EXCEPT ![t] = LoopPc(filtered'[t], 1)]
    /\ UNCHANGED <<parser, globals, env, history, reader, started, fetch_failed,
                   attempts>>

\* lines 134-137: a key already in last_sent is skipped
Check(t) ==
    /\ pc[t] = "check"
    /\ IF KeyInLastSent(CurKey(t), last_sent)
       THEN /\ idx' = [idx EXCEPT ![t] = @ + 1]
            /\ pc' = [pc EXCEPT ![t] = LoopPc(filtered[t], idx'[t])]
       ELSE /\ pc' = [pc EXCEPT ![t] = "send"]
            /\ idx' = idx
    /\ UNCHANGED <<parser, globals, env, history, reader, cycleGhost, items, filtered,
                   now_date, started>>

\* lines 138-144 and 46-59: send_telegram_message returns True or False and
\* the key is added on True
Send(t) ==
    /\ pc[t] = "send"
    /\ \E sent \in BOOLEAN :
          /\ okCount' = [okCount EXCEPT ![CurKey(t)] =
                           IF sent THEN @ + 1 ELSE @]
          /\ lastOutcome' =
               IF now_date[t] = today
               THEN [lastOutcome EXCEPT ![filtered[t][idx[t]].symbol] =
                        IF sent THEN "ok" ELSE "fail"]
               ELSE lastOutcome
          /\ last_sent' = MarkIfOk(last_sent, CurKey(t), sent)
    /\ attempts' = [attempts EXCEPT ![t] = Append(@, idx[t])]
    /\ idx' = [idx EXCEPT ![t] = @ + 1]
    /\ pc' = [pc EXCEPT ![t] = LoopPc(filtered[t], idx'[t])]
    /\ UNCHANGED <<parser, last_run_results, last_run_time, env, time_results,
                   reader, fetch_failed, atStart, items, filtered, now_date,
                   started>>

\* line 146
WriteResults(t) ==
    /\ pc[t] = "write_results"
    /\ last_run_results' = SnapshotResults(filtered[t], last_run_results)
    /\ pc' = [pc EXCEPT ![t] = "write_time"]
    /\ UNCHANGED <<parser, last_sent, last_run_time, env, history, reader, cycleGhost,
                   locals, started>>

\* the function returns; its locals die
Returned(t) ==
    /\ pc' = [pc EXCEPT ![t] = "idle"]
    /\ items' = [items EXCEPT ![t] = <<>>]
    /\ filtered' = [filtered EXCEPT ![t] = <<>>]
    /\ now_date' = [now_date EXCEPT ![t] = 1]
    /\ idx' = [idx EXCEPT ![t] = 1]
    /\ fetch_failed' = [fetch_failed EXCEPT ![t] = FALSE]
    /\ atStart' = [atStart EXCEPT ![t] = NoStart]
    /\ attempts' = [attempts EXCEPT ![t] = <<>>]

\* lines 147-148
WriteTime(t) ==
    /\ pc[t] = "write_time"
    /\ clock' = clock + 1
    /\ last_run_time' = clock'
    /\ time_results' = filtered[t]
    /\ Returned(t)
    /\ UNCHANGED <<parser, last_sent, last_run_results, today, okCount, lastOutcome,
                   reader, started>>

\* an exception raised while a record is processed (lines 134-144) reaches
\* the handler at lines 149-150
Raise(t) ==
    /\ pc[t] \in {"check", "send"}
    /\ Returned(t)
    /\ UNCHANGED <<parser, globals, env, history, reader, started>>

\* the UTC date changes
DayTick ==
    /\ today < MaxDay
    /\ today' = today + 1
    /\ lastOutcome' = [s \in Symbols |-> "none"]
    /\ UNCHANGED <<parser, globals, clock, pc, locals, started, cycleGhost, okCount,
                   time_results, reader>>

\* line 167: 'found_count': len(last_run_results)
FoundCount == Len(last_run_results)

\* the JSON bodies of lines 164-168 and 172-175, built from what was read
IndexBody(r) == [last_run |-> r.time, found_count |-> Len(r.results)]
ResultsBody(r) == [last_run |-> r.time, results |-> r.results]

\* a request arrives at one of the routes
Request ==
    /\ rd.pc = "idle"
    /\ \E route \in Routes : rd' = [IdleRd EXCEPT !.pc = "test", !.route = route]
    /\ UNCHANGED <<parser, globals, env, pc, locals, started, cycleGhost, history>>

\* lines 166 / 173: "... if last_run_time else None" tests last_run_time
ReadTimeTest ==
    /\ rd.pc = "test"
    /\ rd' = [rd EXCEPT !.cond = (last_run_time # 0),
                        !.pc = IF last_run_time # 0 THEN "time" ELSE "results"]
    /\ UNCHANGED <<parser, globals, env, pc, locals, started, cycleGhost, history>>

\* lines 166 / 173: utcfromtimestamp(last_run_time) reads it again
ReadTimeValue ==
    /\ rd.pc = "time"
    /\ rd' = [rd EXCEPT !.time = last_run_time, !.expected = time_results,
                        !.pc = "results"]
    /\ UNCHANGED <<parser, globals, env, pc, locals, started, cycleGhost, history>>

\* (ReadAndClearResults: the view empties the list it has read)
ReadAndClearResults ==
    /\ rd.pc = "results"
    /\ rd' = [rd EXCEPT !.results = last_run_results, !.pc = "respond"]
    /\ last_run_results' = <<>>
    /\ UNCHANGED <<parser, last_sent, last_run_time, env, pc, locals, started,
                   cycleGhost, history>>

\* lines 167 / 174: last_run_results is read
ReadResults ==
    /\ rd.pc = "results"
    /\ rd' = [rd EXCEPT !.results = last_run_results, !.pc = "respond"]
    /\ UNCHANGED <<parser, globals, env, pc, locals, started, cycleGhost, history>>

\* jsonify(...) is returned
Respond ==
    /\ rd.pc = "respond"
    /\ rd' = IdleRd
    /\ UNCHANGED <<parser, globals, env, pc, locals, started, cycleGhost, history>>

\* lines 177-179
Health ==
    /\ rd.pc = "idle"
    /\ rd' = [IdleRd EXCEPT !.pc = "respond", !.route = "health"]
    /\ UNCHANGED <<parser, globals, env, pc, locals, started, cycleGhost, history>>

View ==
    \/ Request
    \/ ReadTimeTest
    \/ ReadTimeValue
    \/ ReadResults
    \/ Respond
    \/ Health

Body(t) ==
    \/ FilterStep(t)
    \/ Check(t)
    \/ Send(t)
    \/ WriteResults(t)
    \/ WriteTime(t)

Cycle(t) ==
    \/ Begin(t)
    \/ Body(t)

\* The scan cycles of the two threads, over the days.
Next ==
    \/ \E t \in Threads : Cycle(t)
    \/ DayTick

Spec == Init /\ [][Next]_vars

\* The scan cycles with exceptions raised in the notify loop.
NextFault ==
    \/ Next
    \/ \E t \in Threads : Raise(t)

SpecFault == Init /\ [][NextFault]_vars

\* The scan cycles of one UTC day with the Flask views served meanwhile.
NextView ==
    \/ \E t \in Threads : Cycle(t)
    \/ View

SpecView == Init /\ [][NextView]_vars

\* One UTC day and one more firing of the interval job.
NextMore ==
    \E t \in Threads : BeginWithin(t, MaxCycles + 1) \/ Body(t)

SpecMore == Init /\ [][NextMore]_vars

\* ------------------------------------------------- parse_rows_from_soup
scan == <<globals, env, pc, locals, started, cycleGhost, history, reader>>

\* parent is None: the walk has left the document object
IsNone(chain, level) == level > Len(chain)

\* parent.name; a NavigableString has no tag name
NameOf(chain, level) == IF level = 0 THEN "None" ELSE chain[level]

\* lines 70-75: the walk takes one more step up
\* (ClimbsUnbounded: the walk is not limited to five iterations)
ClimbsUnbounded(chain, level, n) ==
    /\ ~IsNone(chain, level)
    /\ NameOf(chain, level) \notin ContainerTags
Climbs(chain, level, n) ==
    /\ n < WalkBudget
    /\ ~IsNone(chain, level)
    /\ NameOf(chain, level) \notin ContainerTags

\* line 67: for node in candidates; parent = node
NextCandidate ==
    /\ xpc = "for"
    /\ found < MaxRows
    /\ \E chain \in Chains : node' = chain
    /\ found' = found + 1
    /\ parent' = 0
    /\ climbs' = 0
    /\ xpc' = "walk"
    /\ UNCHANGED <<scan, results, returned>>

\* lines 70-75: one iteration of the walk, or the end of the loop
Walk ==
    /\ xpc = "walk"
    /\ IF Climbs(node, parent, climbs)
       THEN /\ parent' = parent + 1
            /\ climbs' = climbs + 1
            /\ xpc' = xpc
       ELSE /\ xpc' = "text"
            /\ UNCHANGED <<parent, climbs>>
    /\ UNCHANGED <<scan, found, node, results, returned>>

\* lines 76-99: a None parent is skipped; otherwise the text of parent
\* gives the record that is appended
Extract ==
    /\ xpc = "text"
    /\ IF IsNone(node, parent)
       THEN results' = results
       ELSE \E row \in Rows : results' = Append(results, row)
    /\ xpc' = "for"
    /\ UNCHANGED <<scan, found, node, parent, climbs, returned>>

\* lines 101-107: the candidates are exhausted
Return ==
    /\ xpc = "for"
    /\ returned' = parse_rows_from_soup(results)
    /\ xpc' = "done"
    /\ UNCHANGED <<scan, found, node, parent, climbs, results>>

\* One pass of parse_rows_from_soup.
NextParse ==
    \/ NextCandidate
    \/ Walk
    \/ Extract
    \/ Return

SpecParse == Init /\ [][NextParse]_vars

\* ---------------------------------------------------------------- claims
CurSymbol(t) == filtered[t][idx[t]].symbol
Moved(t) == pc'[t] # pc[t] \/ idx'[t] # idx[t]

\* C1: idempotent notification. A cycle never calls send for a symbol whose
\* key for the cycle's day was already in last_sent when the cycle began, so
\* a successful send in an earlier cycle of the day is the only one.
C1_IdempotentNotification ==
    \A t \in Threads :
        pc[t] = "send" => CurSymbol(t) \notin atStart[t].sent

\* A cycle has gone through its whole loop with a symbol that was already
\* sent today when it began.
C1_Witness ==
    \E t \in Threads :
        /\ pc[t] = "write_results"
        /\ atStart[t].sent # {}
        /\ started["startup"] + started["periodic"] = 2

\* C2: a key is in last_sent only if some send for it returned True, and a
\* send that returns False leaves last_sent as it was.
C2_MarkedOnlyOnSuccess ==
    /\ [](\A k \in last_sent : okCount[k] >= 1)
    /\ [][\A t \in Threads :
            (pc[t] = "send" /\ Moved(t) /\ okCount' = okCount)
                => last_sent' = last_sent]_vars

\* A send has failed for today's key of a symbol, which is not in last_sent,
\* while another key is.
C2_Witness ==
    \E s \in Symbols :
        /\ lastOutcome[s] = "fail"
        /\ NotificationKey(s, today) \notin last_sent
        /\ okCount[NotificationKey(s, today)] = 0
        /\ last_sent # {}

\* C3: retry after failure. A cycle that reaches a record whose latest send
\* of the day, made before the cycle began, failed does not skip it: it goes
\* on to send.
C3_RetryAfterFailure ==
    [][\A t \in Threads :
          (pc[t] = "check" /\ CurSymbol(t) \in atStart[t].failed)
              => idx'[t] = idx[t]]_vars

\* C4: snapshot atomicity. The (last_run, results) a view responds with is a
\* complete snapshot: the results are those of the cycle that wrote the
\* timestamp (the empty list for "no run yet").
C4_SnapshotAtomicity ==
    rd.pc = "respond" =>
        /\ rd.route = "results" =>
              ResultsBody(rd) = [last_run |-> rd.time, results |-> rd.expected]
        /\ rd.route = "index" =>
              IndexBody(rd) =
                  [last_run |-> rd.time, found_count |-> Len(rd.expected)]

\* C5: the cycle never runs concurrently with itself.
C5_NoConcurrentCycles ==
    Cardinality({t \in Threads : pc[t] # "idle"}) <= 1

\* C6: no key ever receives two successful sends.
C6_NoDoubleNotification ==
    \A k \in Keys : okCount[k] <= 1

\* C7: every started cycle ends by replacing the snapshot: the only way
\* back to idle is the write of last_run_time that follows the write of
\* last_run_results.
C7_CycleAlwaysUpdatesSnapshot ==
    [][\A t \in Threads :
          (pc[t] # "idle" /\ pc'[t] = "idle")
              => (pc[t] = "write_time" /\ last_run_time' = clock'
                    /\ clock' > clock)]_vars

\* C8: a cycle whose fetch failed goes straight to the snapshot writes with
\* an empty filtered list: it attempts no send, changes no ledger entry,
\* writes the empty sequence to last_run_results and a new last_run_time.
C8_FetchFailureRecovered ==
    /\ [](\A t \in Threads :
            fetch_failed[t] =>
               /\ pc[t] \in {"filter", "write_results", "write_time"}
               /\ pc[t] # "filter" => filtered[t] = <<>>)
    /\ [][\A t \in Threads :
            (fetch_failed[t] /\ Moved(t)) =>
               /\ last_sent' = last_sent
               /\ okCount' = okCount
               /\ pc[t] = "write_results" =>
                     (last_run_results' = <<>> /\ pc'[t] = "write_time")
               /\ pc[t] = "write_time" =>
                     (last_run_time' > last_run_time /\ pc'[t] = "idle")]_vars

\* A cycle whose fetch failed has replaced non-empty results by the empty
\* sequence and is about to write the timestamp.
C8_Witness ==
    \E t \in Threads :
        /\ fetch_failed[t]
        /\ pc[t] = "write_time"
        /\ last_run_results = <<>>
        /\ time_results # <<>>
        /\ \A u \in Threads \ {t} : pc[u] = "idle" /\ started[u] = 1

\* C9 as stated: a cycle whose fetch failed leaves found_count at its
\* previous value.
C9_FoundCountKept ==
    [][\A t \in Threads :
          (fetch_failed[t] /\ pc[t] = "write_results" /\ Moved(t))
              => FoundCount' = FoundCount]_vars

\* C9 as amended: a cycle whose fetch failed sets found_count to 0,
\* whatever it was before.
C9_FoundCountReset ==
    [][\A t \in Threads :
          (fetch_failed[t] /\ pc[t] = "write_results" /\ Moved(t))
              => FoundCount' = 0]_vars

\* After a snapshot of two results, a cycle whose fetch failed has written
\* its results and found_count is 0.
C9_Witness ==
    \E t \in Threads :
        /\ fetch_failed[t]
        /\ pc[t] = "write_time"
        /\ FoundCount = 0
        /\ Len(time_results) = 2
        /\ last_run_time = 1

\* flt holds exactly the records of its that carry the marker, in the order
\* of its
IsMarkedSubsequence(flt, its) ==
    /\ \A r \in Rows :
          r \in Range(flt) <=> (r \in Range(its) /\ HasMarker(r.context))
    /\ Len(flt) = Cardinality({i \in 1..Len(its) : HasMarker(its[i].context)})
    /\ \A i, j \in 1..Len(flt) :
          i < j => \E a, b \in 1..Len(its) :
                      a < b /\ its[a] = flt[i] /\ its[b] = flt[j]

\* C10: the snapshot's results are the cycle's filtered sequence: filtered
\* is exactly the extracted records that carry the marker, in extraction
\* order; it does not change during the cycle, whatever the sends return;
\* and it is what the cycle writes to last_run_results.
C10_SnapshotIsFiltered ==
    [][\A t \in Threads :
          /\ (pc[t] = "filter" /\ Moved(t))
                => IsMarkedSubsequence(filtered'[t], items[t])
          /\ (pc[t] \in {"check", "send", "write_results"})
                => filtered'[t] = filtered[t]
          /\ (pc[t] = "write_results" /\ Moved(t))
                => last_run_results' = filtered[t]]_vars

\* The results just written hold a record already notified when the cycle
\* began and a record whose send failed in this cycle.
C10_Witness ==
    \E t \in Threads :
        /\ pc[t] = "write_time"
        /\ last_run_results = filtered[t]
        /\ \E i, j \in 1..Len(filtered[t]) :
              /\ filtered[t][i].symbol \in atStart[t].sent
              /\ lastOutcome[filtered[t][j].symbol] = "fail"
              /\ NotificationKey(filtered[t][j].symbol, now_date[t])
                    \notin last_sent
              /\ now_date[t] = today

\* C11 (as stated): the results a cycle writes contain no record that fails
\* the filter and no record whose key was already in last_sent when the
\* cycle began.
C11_NotifiedExcluded ==
    [][\A t \in Threads :
          (pc[t] = "write_results" /\ Moved(t)) =>
             \A i \in 1..Len(last_run_results') :
                /\ HasMarker(last_run_results'[i].context)
                /\ last_run_results'[i].symbol \notin atStart[t].sent]_vars

\* C11 (amended): the results a cycle writes contain no record that fails
\* the filter, and every filtered record whose key was already in last_sent
\* when the cycle began is kept in them.
C11_OnlyUnmarkedExcluded ==
    [][\A t \in Threads :
          /\ (pc[t] = "filter" /\ Moved(t)) =>
                \A i \in 1..Len(items[t]) :
                   ~HasMarker(items[t][i].context) =>
                      items[t][i] \notin Range(filtered'[t])
          /\ (pc[t] = "write_results" /\ Moved(t)) =>
                /\ \A i \in 1..Len(last_run_results') :
                      HasMarker(last_run_results'[i].context)
                /\ \A i \in 1..Len(filtered[t]) :
                      filtered[t][i].symbol \in atStart[t].sent =>
                         filtered[t][i] \in Range(last_run_results')]_vars

C11_Witness ==
    \E t \in Threads :
       /\ pc[t] = "write_time"
       /\ ~fetch_failed[t]
       /\ Len(last_run_results) = 2
       /\ \A i \in 1..Len(last_run_results) :
             /\ last_run_results[i].symbol \in atStart[t].sent
             /\ NotificationKey(last_run_results[i].symbol, now_date[t])
                   \in last_sent

\* C12: no step of a cycle (a skipped record, a successful or failed send,
\* a failed fetch, the snapshot writes) and no step of a status read removes
\* a key from last_sent, and a successful send for a key that is already in
\* last_sent leaves last_sent as it was.
C12_LedgerMonotonic ==
    [][/\ last_sent \subseteq last_sent'
       /\ \A t \in Threads :
             (pc[t] = "send" /\ Moved(t) /\ CurKey(t) \in last_sent) =>
                last_sent' = last_sent]_vars

C12_Witness ==
    /\ rd.pc = "respond"
    /\ \E k \in last_sent : okCount[k] = 2
    /\ \E s \in Symbols :
          /\ lastOutcome[s] = "fail"
          /\ NotificationKey(s, today) \notin last_sent

\* C13: every step of a status read (GET /, GET /results, GET /health)
\* leaves last_sent, last_run_results and last_run_time unchanged, starts no
\* cycle and moves none, and causes no send.
C13_ViewsArePure ==
    [][rd' # rd =>
          /\ last_sent' = last_sent
          /\ last_run_results' = last_run_results
          /\ last_run_time' = last_run_time
          /\ pc' = pc
          /\ started' = started
          /\ idx' = idx
          /\ okCount' = okCount
          /\ lastOutcome' = lastOutcome]_vars

C13_Witness ==
    /\ rd.pc = "respond"
    /\ rd.route = "results"
    /\ rd.results # <<>>
    /\ rd.results = last_run_results
    /\ last_sent # {}
    /\ \E t \in Threads : pc[t] = "send"

\* the first record appended with the symbol s
FirstWith(s) ==
    CHOOSE i \in 1..Len(results) :
       /\ results[i].symbol = s
       /\ \A j \in 1..(i - 1) : results[j].symbol # s

ReachableAncestors(chain) ==
    {chain[k] : k \in 1..(IF Len(chain) < WalkBudget THEN Len(chain)
                          ELSE WalkBudget)}

\* no tr, div, li or section among the first five ancestors
NoContainerInReach(chain) == ReachableAncestors(chain) \cap ContainerTags = {}

\* C15 (as stated): a marker occurrence with no container among its first
\* five ancestors yields no record, however long its chain of ancestors is.
C15_NoContainerNoRecord ==
    [][(xpc = "text" /\ xpc' = "for" /\ NoContainerInReach(node)) =>
          results' = results]_vars

\* C15 (amended): a marker occurrence with no container among its first
\* five ancestors yields no record when it has fewer than five ancestors
\* (the walk reaches None); when it has five or more, the walk stops on the
\* fifth ancestor and one record is appended from that ancestor's text. The
\* pass goes on to the next candidate in both cases.
C15_RecordFromFifthAncestor ==
    [][(xpc = "text" /\ xpc' # xpc /\ NoContainerInReach(node)) =>
          /\ xpc' = "for"
          /\ Len(node) < WalkBudget =>
                (IsNone(node, parent) /\ results' = results)
          /\ Len(node) >= WalkBudget =>
                /\ parent = WalkBudget
                /\ Len(results') = Len(results) + 1
                /\ \A i \in 1..Len(results) : results'[i] = results[i]]_vars

C15_Witness ==
    /\ xpc = "for"
    /\ found = 2
    /\ Len(results) = 1
    /\ NoContainerInReach(node)
    /\ Len(node) >= WalkBudget
    /\ parent = WalkBudget

KeyAt(t, i) == NotificationKey(filtered[t][i].symbol, now_date[t])

\* C16: the loop takes the filtered records in order; a record whose key is
\* in last_sent when it is reached is passed without a send, a record whose
\* key is not gets one send, after which the loop goes on to the next
\* record whether the send returned True or False; so no position is sent
\* twice and, when the loop has ended, every record has either had its send
\* or has its key in last_sent.
C16_OneSendPerNewRecord ==
    /\ [](\A t \in Threads :
            /\ \A a, b \in 1..Len(attempts[t]) :
                  a < b => attempts[t][a] < attempts[t][b]
            /\ \A a \in 1..Len(attempts[t]) : attempts[t][a] < idx[t]
            /\ pc[t] \in {"write_results", "write_time"} =>
                  \A i \in 1..Len(filtered[t]) :
                     i \in Range(attempts[t]) \/ KeyAt(t, i) \in last_sent)
    /\ [][\A t \in Threads :
            /\ (pc[t] = "check" /\ Moved(t) /\ CurKey(t) \in last_sent) =>
                  /\ attempts'[t] = attempts[t]
                  /\ idx'[t] = idx[t] + 1
                  /\ pc'[t] # "send"
            /\ (pc[t] = "check" /\ Moved(t) /\ CurKey(t) \notin last_sent) =>
                  /\ pc'[t] = "send"
                  /\ idx'[t] = idx[t]
            /\ (pc[t] = "send" /\ Moved(t)) =>
                  /\ attempts'[t] = Append(attempts[t], idx[t])
                  /\ idx'[t] = idx[t] + 1
                  /\ pc'[t] = IF idx[t] < Len(filtered[t])
                              THEN "check" ELSE "write_results"]_vars

C16_Witness ==
    \E t \in Threads :
       /\ pc[t] = "write_results"
       /\ Len(filtered[t]) = 2
       /\ attempts[t] = <<1, 2>>
       /\ KeyAt(t, 1) \notin last_sent
       /\ lastOutcome[filtered[t][1].symbol] = "fail"
       /\ okCount[KeyAt(t, 2)] = 1

C18_SuppressionPerDay ==
    [][\A t \in Threads :
          /\ (pc[t] = "check" /\ Moved(t)
                /\ <<CurSymbol(t), now_date[t]>> \notin last_sent) =>
                pc'[t] = "send"
          /\ (pc[t] = "send" /\ Moved(t)) =>
                /\ last_sent \subseteq last_sent'
                /\ last_sent' \subseteq
                      last_sent \cup {<<CurSymbol(t), now_date[t]>>}
          /\ (pc[t] = "filter" /\ Moved(t)) => now_date'[t] = today
          /\ (pc[t] \in {"check", "send"}) => now_date'[t] = now_date[t]]_vars

C18_Witness ==
    \E s \in Symbols, t \in Threads :
       /\ pc[t] = "write_results"
       /\ now_date[t] = 2
       /\ s \in SymbolsOf(filtered[t])
       /\ {<<s, 1>>, <<s, 2>>} \subseteq last_sent
       /\ okCount[<<s, 1>>] = 1
       /\ okCount[<<s, 2>>] = 1

\* C19 (as stated, its last part): on one UTC day, once a symbol's key is in
\* last_sent no cycle sends for that key again.
C19_NoSendOnceMarked ==
    [][\A t \in Threads :
          (pc[t] = "send" /\ Moved(t) /\ now_date[t] = today) =>
             CurKey(t) \notin last_sent]_vars

====
